---- MODULE Spec2Model ----
(***************************************************************************)
(* urwid/wimp.py: CheckBox, RadioButton and Button as a state machine.     *)
(*                                                                         *)
(* Python runs one call at a time; a 'change' handler is application code  *)
(* that runs in the middle of set_state and may look at any control, raise *)
(* or call back into a control.  The model therefore keeps the Python call *)
(* stack explicitly: every step is the piece of code between two instants  *)
(* at which application code runs (a handler is entered or left, or a      *)
(* top-level call begins or ends).                                         *)
(*                                                                         *)
(* Python values are modelled by strings: "None", "False", "True",         *)
(* "mixed", "first True" and "bogus" (any value that is no key of          *)
(* CheckBox.states).  Numbers are not among the values, so that == on      *)
(* them is identity.                                                       *)
(***************************************************************************)
EXTENDS Integers, Sequences, FiniteSets, TLC

\* Bounds of the model.
NCtl == 2          \* controls that may be constructed, of either class
NRadio == 3        \* radio buttons of the group, where only those are built
NCheckBox == 1     \* check boxes, where only those are built
MaxHandlers == 2   \* handlers connected to one control's 'change' signal
MaxRadioHandlers == 1  \* the same, where only radio buttons are built
MaxCheckBoxHandlers == 1  \* the same, where toggles of check boxes are remembered
MaxDepth == 1      \* handler-initiated calls nested in one another
NButton == 2       \* buttons, where only those are built
MaxPresses == 2    \* button-1 press events counted for one button

Ctl == 1..(CHOOSE m \in {NCtl, NRadio, NCheckBox, NButton} :
                \A n \in {NCtl, NRadio, NCheckBox, NButton} : n <= m)

None == "None"
\* keys of CheckBox.states / RadioButton.states
States == {"True", "False", "mixed"}
\* values an application may pass as a state
Values == {"True", "False", "mixed", "None", "bogus"}
HandlerIds == {"a"}
\* registrations (callback, user_data) where handlers are told apart: "a" is
\* callback_a with user data "user_a", "b" is callback_b without user data
Registrations == {"a", "b"}
Keys == {" ", "enter", "x"}
Events == {"mouse press", "mouse release"}
Buttons == {1, 2}
\* pointer events delivered to a Button
PointerEvents == Events \cup {"mouse drag"}
\* callbacks and user data a Button is constructed with
Callbacks == {"None", "f"}
UserData == {"None", "u"}

VARIABLES
    kind,       \* kind[c]: "none" (not constructed), "CheckBox", "RadioButton"
                \* or "Button"
    has_mixed,  \* has_mixed[c]: self.has_mixed
    state,      \* state[c]: self._state
    w,          \* w[c]: glyph of the composition self.w, "None" before it is built
    group,      \* the radio group: the list the RadioButtons are appended to
    handlers,   \* handlers[c]: callbacks connected to c's 'change', in order
    stack,      \* the Python call stack, innermost frame last
    call,       \* the top-level call in progress, or the last one completed
    pre,        \* state at the moment the top-level call began
    pre_handlers,  \* handlers at the moment the top-level call began
    log,        \* handler invocations during the top-level call
    emits,      \* emissions of 'change' during the top-level call
    rebuilt,    \* controls whose composition was (re)built during the call
    reentered,  \* some handler called back into a control during the call
    outcome,    \* "none", "pending", "return", "CheckBoxError", "HandlerError"
    retval,     \* value returned by the top-level call
    prev,       \* summary of the top-level call before this one
    prev2,      \* summary of the top-level call before that one
    defaults,   \* every call so far constructed a radio button by default
    on_press,   \* on_press[c]: self.on_press of a Button
    user_data,  \* user_data[c]: self.user_data of a Button
    presses,    \* presses[c]: button-1 press events delivered to Button c
    pointer_calls,  \* pointer_calls[c]: calls of on_press made by mouse_event
    calls       \* calls of on_press during the top-level call

vars == <<kind, has_mixed, state, w, group, handlers, stack, call, pre,
          pre_handlers, log, emits,
          rebuilt, reentered, outcome, retval, prev, prev2, defaults, on_press,
          user_data, presses, pointer_calls, calls>>

----------------------------------------------------------------------------
\* Python semantics of the values

\* a == b
PyEq(a, b) == a = b

\* bool(v): used by "if cb._state:"
Truthy(v) == v \notin {"None", "False"}

\* "state not in self.states"
InStates(v) == v \in States

\* self.states[state]: the SelectableIcon shown for a state
Glyph(k, v) ==
    IF k = "RadioButton"
    THEN (CASE v = "True" -> "(X)" [] v = "False" -> "( )" [] OTHER -> "(#)")
    ELSE (CASE v = "True" -> "[X]" [] v = "False" -> "[ ]" [] OTHER -> "[#]")

\* command_map[key]
command_map(key) == IF key \in {" ", "enter"} THEN "activate" ELSE "other"

\* is_mouse_press(event)
is_mouse_press(ev) == ev = "mouse press"

----------------------------------------------------------------------------
\* Frames of the call stack

Frame(fn, self, st, dc, pc, i, snap) ==
    [fn |-> fn, self |-> self, state |-> st, do_callback |-> dc,
     pc |-> pc, i |-> i, snap |-> snap]

Top == stack[Len(stack)]
Rest == SubSeq(stack, 1, Len(stack) - 1)

\* self.set_state(state, do_callback) is dispatched on the class of self
SetStateFrame(c, v, dc) ==
    Frame(IF kind[c] = "RadioButton" THEN "RadioButton.set_state"
          ELSE "CheckBox.set_state", c, v, dc, "start", 1, <<>>)

\* toggle_state with the has_mixed test lost: True always goes to 'mixed'
ToggleTargetIgnoresHasMixed(st, hm) ==
    CASE st = "False" -> "True"
      [] st = "True" -> "mixed"
      [] st = "mixed" -> "False"
      [] OTHER -> None

\* toggle_state with the "else: self.set_state(False)" branch lost
ToggleTargetNoUntick(st, hm) ==
    CASE st = "False" -> "True"
      [] st = "True" -> (IF hm THEN "mixed" ELSE None)
      [] st = "mixed" -> "False"
      [] OTHER -> None

\* toggle_state with the branches of True and 'mixed' exchanged
ToggleTargetMixedFirst(st, hm) ==
    CASE st = "False" -> (IF hm THEN "mixed" ELSE "True")
      [] st = "True" -> "False"
      [] st = "mixed" -> "True"
      [] OTHER -> None

\* The state CheckBox.toggle_state asks for, "None" when no branch applies
ToggleTarget(st, hm) ==
    CASE st = "False" -> "True"
      [] st = "True" -> (IF hm THEN "mixed" ELSE "False")
      [] st = "mixed" -> "False"
      [] OTHER -> None

\* RadioButton without its own toggle_state: it cycles as a CheckBox does
ToggleFramesInherited(c) ==
    LET t == ToggleTarget(state[c], has_mixed[c])
    IN  << Frame("CheckBox.toggle_state", c, None, TRUE, "call", 1, <<>>) >>
        \o (IF t = None THEN <<>> ELSE << SetStateFrame(c, t, TRUE) >>)

\* The frames of a call of c.toggle_state(): the toggle_state frame and the
\* set_state call it makes
ToggleFrames(c) ==
    IF kind[c] = "RadioButton"
    THEN << Frame("RadioButton.toggle_state", c, None, TRUE, "call", 1, <<>>),
            SetStateFrame(c, "True", TRUE) >>
    ELSE LET t == ToggleTarget(state[c], has_mixed[c])
         IN  << Frame("CheckBox.toggle_state", c, None, TRUE, "call", 1, <<>>) >>
             \o (IF t = None THEN <<>> ELSE << SetStateFrame(c, t, TRUE) >>)

Constructed(c) == kind[c] # "none"
Idle == stack = <<>>
\* the control a constructor on the stack is still building
UnderConstruction(c) ==
    \E k \in 1..Len(stack) :
        /\ stack[k].fn \in {"CheckBox.__init__", "RadioButton.__init__"}
        /\ stack[k].self = c
Depth == Cardinality({k \in 1..Len(stack) : stack[k].fn = "handler"
                                             /\ stack[k].pc = "after"})

\* no call yet; control 0 is no control
NoCall == [op |-> "none", self |-> 0, arg |-> None, do_callback |-> TRUE,
           button |-> 0]
\* prev remembers the call before the current one when it was a toggle (by
\* toggle_state, an 'activate' key or a button-1 press) that returned
\* normally and that no handler re-entered: the control and its state before
IsToggle(cl) ==
    \/ cl.op = "toggle_state"
    \/ cl.op = "keypress" /\ command_map(cl.arg) = "activate"
    \/ cl.op = "mouse_event" /\ cl.button = 1 /\ is_mouse_press(cl.arg)

NoPrev == [self |-> 0, pre |-> None]

Summary ==
    IF IsToggle(call) /\ outcome = "return" /\ ~reentered
    THEN [self |-> call.self, pre |-> pre[call.self]]
    ELSE NoPrev

Init ==
    /\ kind = [c \in Ctl |-> "none"]
    /\ has_mixed = [c \in Ctl |-> FALSE]
    /\ state = [c \in Ctl |-> None]
    /\ w = [c \in Ctl |-> None]
    /\ group = <<>>
    /\ handlers = [c \in Ctl |-> <<>>]
    /\ stack = <<>>
    /\ call = NoCall
    /\ pre = [c \in Ctl |-> None]
    /\ pre_handlers = [c \in Ctl |-> <<>>]
    /\ log = <<>>
    /\ emits = <<>>
    /\ rebuilt = {}
    /\ reentered = FALSE
    /\ outcome = "none"
    /\ retval = None
    /\ prev = NoPrev
    /\ prev2 = NoPrev
    /\ defaults = TRUE
    /\ on_press = [c \in Ctl |-> None]
    /\ user_data = [c \in Ctl |-> None]
    /\ presses = [c \in Ctl |-> 0]
    /\ pointer_calls = [c \in Ctl |-> 0]
    /\ calls = <<>>


----------------------------------------------------------------------------
\* Beginning and ending calls

btnVars == <<on_press, user_data, presses, pointer_calls>>
ctlVars == <<kind, has_mixed, state, w, group, handlers, btnVars>>
histVars == <<call, pre, pre_handlers, log, emits, rebuilt, reentered, prev,
             prev2, defaults, calls>>
NumConstructed == Cardinality({c \in Ctl : Constructed(c)})

NextFree == CHOOSE c \in Ctl : ~Constructed(c) /\ \A d \in 1..(c - 1) : Constructed(d)

\* A top-level call begins: application code calls into the library
BeginCall(cl) ==
    /\ Idle
    /\ call' = cl
    /\ pre' = state
    /\ pre_handlers' = handlers
    /\ log' = <<>>
    /\ emits' = <<>>
    /\ calls' = <<>>
    /\ rebuilt' = {}
    /\ reentered' = FALSE
    /\ defaults' = (defaults /\ cl.op = "RadioButton.__init__"
                              /\ cl.arg = "first True")

\* the value a top-level call returns when it returns normally
RetOf(cl) == IF cl.op = "mouse_event" THEN "True" ELSE None

\* The innermost frame returns to its caller
Pop ==
    /\ stack' = Rest
    /\ outcome' = IF Len(stack) = 1 THEN "return" ELSE outcome
    /\ retval' = IF Len(stack) = 1 THEN RetOf(call) ELSE retval

\* An exception propagates: nothing in wimp.py catches, so every frame is
\* left, and a control whose constructor is left this way never exists
Raise(err) ==
    /\ stack' = <<>>
    /\ outcome' = err
    /\ retval' = None
    /\ kind' = [c \in Ctl |-> IF UnderConstruction(c) THEN "none" ELSE kind[c]]
    /\ has_mixed' = [c \in Ctl |-> IF UnderConstruction(c) THEN FALSE ELSE has_mixed[c]]
    /\ state' = [c \in Ctl |-> IF UnderConstruction(c) THEN None ELSE state[c]]
    /\ w' = [c \in Ctl |-> IF UnderConstruction(c) THEN None ELSE w[c]]
    /\ handlers' = [c \in Ctl |-> IF UnderConstruction(c) THEN <<>> ELSE handlers[c]]
    /\ UNCHANGED <<group, btnVars>>

----------------------------------------------------------------------------
\* Top-level calls

\* CheckBox.__init__(label, state, has_mixed, on_state_change, user_data)
NewCheckBox(n, v, hm, osc) ==
    /\ NumConstructed < n
    /\ LET c == NextFree IN
        /\ BeginCall([op |-> "CheckBox.__init__", self |-> c, arg |-> v,
                      do_callback |-> TRUE, button |-> 0])
        /\ kind' = [kind EXCEPT ![c] = "CheckBox"]
        /\ has_mixed' = [has_mixed EXCEPT ![c] = hm]
        /\ state' = [state EXCEPT ![c] = None]
        /\ w' = [w EXCEPT ![c] = None]
        /\ handlers' = [handlers EXCEPT ![c] = IF osc = None THEN <<>> ELSE <<osc>>]
        /\ stack' = << Frame("CheckBox.__init__", c, v, TRUE, "set_state", 1, <<>>),
                       Frame("CheckBox.set_state", c, v, TRUE, "start", 1, <<>>) >>
        /\ outcome' = "pending"
        /\ UNCHANGED <<group, btnVars, retval>>

\* "first True" taken for True whatever the group holds
FirstTrueAlways(v) == IF v = "first True" THEN "True" ELSE v

\* state == "first True": state = not group
FirstTrue(v) == IF v = "first True"
                THEN (IF group = <<>> THEN "True" ELSE "False")
                ELSE v

\* RadioButton.__init__(group, label, state, on_state_change, user_data)
NewRadioButton(n, v, osc) ==
    /\ NumConstructed < n
    /\ LET c == NextFree
           st == FirstTrue(v) IN
        /\ BeginCall([op |-> "RadioButton.__init__", self |-> c, arg |-> v,
                      do_callback |-> TRUE, button |-> 0])
        /\ kind' = [kind EXCEPT ![c] = "RadioButton"]
        /\ has_mixed' = [has_mixed EXCEPT ![c] = FALSE]
        /\ state' = [state EXCEPT ![c] = None]
        /\ w' = [w EXCEPT ![c] = None]
        /\ handlers' = [handlers EXCEPT ![c] = IF osc = None THEN <<>> ELSE <<osc>>]
        /\ stack' = << Frame("RadioButton.__init__", c, st, TRUE, "set_state", 1, <<>>),
                       Frame("RadioButton.set_state", c, st, TRUE, "start", 1, <<>>) >>
        /\ outcome' = "pending"
        /\ UNCHANGED <<group, btnVars, retval>>

\* connect_signal(c, 'change', h)
ConnectSignal(n, c, h) ==
    /\ Constructed(c)
    /\ Len(handlers[c]) < n
    /\ BeginCall([op |-> "connect_signal", self |-> c, arg |-> h,
                  do_callback |-> TRUE, button |-> 0])
    /\ handlers' = [handlers EXCEPT ![c] = Append(@, h)]
    /\ outcome' = "return"
    /\ retval' = None
    /\ UNCHANGED <<kind, has_mixed, state, w, group, btnVars, stack>>

\* a list of registrations without the first one that equals h
RECURSIVE RemoveFirst(_, _)
RemoveFirst(hs, h) ==
    IF hs = <<>> THEN <<>>
    ELSE IF Head(hs) = h THEN Tail(hs)
    ELSE <<Head(hs)>> \o RemoveFirst(Tail(hs), h)

\* disconnect_signal(c, 'change', h)
DisconnectSignal(c, h) ==
    /\ Constructed(c)
    /\ BeginCall([op |-> "disconnect_signal", self |-> c, arg |-> h,
                  do_callback |-> TRUE, button |-> 0])
    /\ handlers' = [handlers EXCEPT ![c] = RemoveFirst(@, h)]
    /\ outcome' = "return"
    /\ retval' = None
    /\ UNCHANGED <<kind, has_mixed, state, w, group, btnVars, stack>>

\* c.set_state(v, dc) called by the application
SetState(c, v, dc) ==
    /\ Constructed(c)
    /\ BeginCall([op |-> "set_state", self |-> c, arg |-> v,
                  do_callback |-> dc, button |-> 0])
    /\ stack' = << SetStateFrame(c, v, dc) >>
    /\ outcome' = "pending"
    /\ UNCHANGED <<ctlVars, retval>>

\* c.toggle_state() called by the application
ToggleState(c) ==
    /\ Constructed(c)
    /\ BeginCall([op |-> "toggle_state", self |-> c, arg |-> None,
                  do_callback |-> TRUE, button |-> 0])
    /\ stack' = ToggleFrames(c)
    /\ outcome' = "pending"
    /\ UNCHANGED <<ctlVars, retval>>

\* CheckBox.keypress(size, key)
Keypress(c, key) ==
    /\ Constructed(c)
    /\ BeginCall([op |-> "keypress", self |-> c, arg |-> key,
                  do_callback |-> TRUE, button |-> 0])
    /\ IF command_map(key) # "activate"
       THEN /\ stack' = <<>>
            /\ outcome' = "return"
            /\ retval' = key
       ELSE /\ stack' = ToggleFrames(c)
            /\ outcome' = "pending"
            /\ UNCHANGED retval
    /\ UNCHANGED ctlVars

\* CheckBox.mouse_event(size, event, button, x, y, focus)
MouseEvent(c, ev, b) ==
    /\ Constructed(c)
    /\ BeginCall([op |-> "mouse_event", self |-> c, arg |-> ev,
                  do_callback |-> TRUE, button |-> b])
    /\ IF b # 1 \/ ~is_mouse_press(ev)
       THEN /\ stack' = <<>>
            /\ outcome' = "return"
            /\ retval' = "False"
       ELSE /\ stack' = ToggleFrames(c)
            /\ outcome' = "pending"
            /\ UNCHANGED retval
    /\ UNCHANGED ctlVars

----------------------------------------------------------------------------
\* CheckBox.set_state(self, state, do_callback)

\* set_state without its first test
SameStateNever(cur, v) == FALSE

\* "if self._state == state: return"
SameState(cur, v) == PyEq(cur, v)

\* the test of the just-created special case lost
ShouldEmitAlways(dc, cur) == dc

\* the do_callback flag ignored
ShouldEmitIgnoresFlag(dc, cur) == cur # None

\* "if do_callback and self._state is not None": is 'change' emitted
ShouldEmit(dc, cur) == dc /\ cur # None

\* self._emit('change', self, state): the argument the handlers are given
EmitArg(cur, v) == v

\* "self._state = state" moved before the emission
CommitBeforeEmit(cur, v) == v

\* the state handlers see while 'change' is emitted: the emission comes
\* first, "self._state = state" after it
StateDuringEmit(cur, v) == cur

InFrame(fn, pc) == ~Idle /\ Top.fn = fn /\ Top.pc = pc

\* the state is unchanged: return at once
CBSetStateSame ==
    /\ InFrame("CheckBox.set_state", "start")
    /\ SameState(state[Top.self], Top.state)
    /\ Pop
    /\ UNCHANGED <<ctlVars, histVars>>

\* "state not in self.states": raise CheckBoxError
CBSetStateInvalid ==
    /\ InFrame("CheckBox.set_state", "start")
    /\ ~SameState(state[Top.self], Top.state)
    /\ ~InStates(Top.state)
    /\ Raise("CheckBoxError")
    /\ UNCHANGED histVars

\* the emission begins, over the handlers connected at this moment
CBSetStateBegin ==
    /\ InFrame("CheckBox.set_state", "start")
    /\ ~SameState(state[Top.self], Top.state)
    /\ InStates(Top.state)
    /\ LET c == Top.self
           snap == IF ShouldEmit(Top.do_callback, state[c])
                   THEN handlers[c] ELSE <<>>
       IN  /\ stack' = Rest \o << [Top EXCEPT !.pc = "emit", !.i = 1, !.snap = snap] >>
           /\ state' = [state EXCEPT ![c] = StateDuringEmit(state[c], Top.state)]
           /\ emits' = IF ShouldEmit(Top.do_callback, state[c])
                       THEN Append(emits, [emitter |-> c,
                                           arg |-> EmitArg(state[c], Top.state)])
                       ELSE emits
    /\ UNCHANGED <<kind, has_mixed, w, group, handlers, btnVars, calls, call,
                   pre, pre_handlers,
                   log, rebuilt,
                   reentered, prev, prev2, defaults, outcome, retval>>

\* the user data a registration was connected with, "None" without
UserDataOf(h) == IF h = "a" THEN "user_a" ELSE None

\* the next handler is called: application code runs from here on
CBEmit ==
    /\ InFrame("CheckBox.set_state", "emit")
    /\ Top.i <= Len(Top.snap)
    /\ LET c == Top.self
           h == Top.snap[Top.i]
           arg == EmitArg(state[c], Top.state)
       IN  /\ stack' = Rest \o << [Top EXCEPT !.i = @ + 1],
                                  Frame("handler", c, arg, TRUE, "body", 1, <<h>>) >>
           /\ log' = Append(log, [emitter |-> c, arg |-> arg, h |-> h,
                                  seen |-> state[c],
                                  user_data |-> UserDataOf(h)])
    /\ UNCHANGED <<ctlVars, calls, call, pre, pre_handlers,
                   emits, rebuilt, reentered, prev, prev2,
                   defaults, outcome, retval>>

\* "self._state = state; self.w = Columns(...)" and return
CBCommit ==
    /\ InFrame("CheckBox.set_state", "emit")
    /\ Top.i > Len(Top.snap)
    /\ LET c == Top.self IN
        /\ state' = [state EXCEPT ![c] = Top.state]
        /\ w' = [w EXCEPT ![c] = Glyph(kind[c], Top.state)]
        /\ rebuilt' = rebuilt \cup {c}
    /\ Pop
    /\ UNCHANGED <<kind, has_mixed, group, handlers, btnVars, calls, call,
                   pre, pre_handlers,
                   log, emits,
                   reentered, prev, prev2, defaults>>

----------------------------------------------------------------------------
\* A 'change' handler: application code

\* the handler returns
HandlerReturn ==
    /\ ~Idle
    /\ Top.fn = "handler"
    /\ Pop
    /\ UNCHANGED <<ctlVars, histVars>>

\* the handler raises, and wimp.py lets the exception through
HandlerRaise ==
    /\ InFrame("handler", "body")
    /\ Raise("HandlerError")
    /\ UNCHANGED histVars

\* values a handler passes when it calls back into set_state
ReenterValues == {"True", "False"}

\* the handler calls set_state on a control it can reach
HandlerSetState(c, v) ==
    /\ InFrame("handler", "body")
    /\ Depth < MaxDepth
    /\ Constructed(c) /\ ~UnderConstruction(c)
    /\ stack' = Rest \o << [Top EXCEPT !.pc = "after"], SetStateFrame(c, v, TRUE) >>
    /\ reentered' = TRUE
    /\ UNCHANGED <<ctlVars, calls, call, pre, pre_handlers,
                   log, emits, rebuilt, prev, prev2,
                   defaults, outcome, retval>>

\* the handler calls toggle_state on a control it can reach
HandlerToggleState(c) ==
    /\ InFrame("handler", "body")
    /\ Depth < MaxDepth
    /\ Constructed(c) /\ ~UnderConstruction(c)
    /\ stack' = Rest \o << [Top EXCEPT !.pc = "after"] >> \o ToggleFrames(c)
    /\ reentered' = TRUE
    /\ UNCHANGED <<ctlVars, calls, call, pre, pre_handlers,
                   log, emits, rebuilt, prev, prev2,
                   defaults, outcome, retval>>

\* the handler disconnects a handler of a control while 'change' is emitted
HandlerDisconnect(c, h) ==
    /\ InFrame("handler", "body")
    /\ Constructed(c)
    /\ \E k \in 1..Len(handlers[c]) : handlers[c][k] = h
    /\ handlers' = [handlers EXCEPT ![c] = RemoveFirst(@, h)]
    /\ UNCHANGED <<kind, has_mixed, state, w, group, btnVars, stack, histVars,
                   outcome, retval>>

----------------------------------------------------------------------------
\* RadioButton.set_state(self, state, do_callback)

\* the test of cb._state inverted
MustClearInverted(self, cb) == cb # self /\ ~Truthy(state[cb])

\* "if cb is self: continue; if cb._state: cb.set_state(False)"
MustClear(self, cb) == cb # self /\ Truthy(state[cb])

\* the members are cleared with the do_callback of the call that clears
ClearDoCallbackInherited(dc) == dc

\* "cb.set_state(False)": do_callback is left at its default
ClearDoCallback(dc) == TRUE

\* the test of the new state never lets the loop run
IsNotTrueAlways(v) == TRUE

\* "if state is not True: return"
IsNotTrue(v) == v # "True"

\* first index from i on of a group member still to be cleared, 0 if none
NextToClear(self, i) ==
    LET S == {j \in i..Len(group) : MustClear(self, group[j])}
    IN  IF S = {} THEN 0 ELSE CHOOSE j \in S : \A k \in S : j <= k

RBSetStateSame ==
    /\ InFrame("RadioButton.set_state", "start")
    /\ SameState(state[Top.self], Top.state)
    /\ Pop
    /\ UNCHANGED <<ctlVars, histVars>>

\* "self.__super.set_state(state, do_callback)"
RBSetStateSuper ==
    /\ InFrame("RadioButton.set_state", "start")
    /\ ~SameState(state[Top.self], Top.state)
    /\ stack' = Rest \o << [Top EXCEPT !.pc = "super"],
                           Frame("CheckBox.set_state", Top.self, Top.state,
                                 Top.do_callback, "start", 1, <<>>) >>
    /\ UNCHANGED <<ctlVars, histVars, outcome, retval>>

\* the state was cleared or set to 'mixed': the group is left alone
RBSetStateNotTrue ==
    /\ InFrame("RadioButton.set_state", "super")
    /\ IsNotTrue(Top.state)
    /\ Pop
    /\ UNCHANGED <<ctlVars, histVars>>

InClearLoop ==
    /\ ~Idle
    /\ Top.fn = "RadioButton.set_state"
    /\ \/ Top.pc = "super" /\ ~IsNotTrue(Top.state)
       \/ Top.pc = "loop"

\* "for cb in self.group": the next member that holds a true state is cleared
RBClearNext ==
    /\ InClearLoop
    /\ LET j == NextToClear(Top.self, Top.i) IN
        /\ j # 0
        /\ stack' = Rest \o << [Top EXCEPT !.pc = "loop", !.i = j + 1],
                               SetStateFrame(group[j], "False",
                                             ClearDoCallback(Top.do_callback)) >>
    /\ UNCHANGED <<ctlVars, histVars, outcome, retval>>

\* the loop is over
RBClearDone ==
    /\ InClearLoop
    /\ NextToClear(Top.self, Top.i) = 0
    /\ Pop
    /\ UNCHANGED <<ctlVars, histVars>>

----------------------------------------------------------------------------
\* toggle_state and the constructors, once their set_state call has returned

\* CheckBox.toggle_state: "self._invalidate()"; RadioButton.toggle_state: return
ToggleReturn ==
    /\ ~Idle
    /\ Top.fn \in {"CheckBox.toggle_state", "RadioButton.toggle_state"}
    /\ Pop
    /\ UNCHANGED <<ctlVars, histVars>>

\* CheckBox.__init__ returns
CBInitReturn ==
    /\ ~Idle
    /\ Top.fn = "CheckBox.__init__"
    /\ Pop
    /\ UNCHANGED <<ctlVars, histVars>>

\* RadioButton.__init__: "group.append(self)"
RBInitReturn ==
    /\ ~Idle
    /\ Top.fn = "RadioButton.__init__"
    /\ group' = Append(group, Top.self)
    /\ Pop
    /\ UNCHANGED <<kind, has_mixed, state, w, handlers, btnVars, histVars>>

----------------------------------------------------------------------------
\* Button

\* Button.__init__(label, on_press, user_data)
NewButton(n, f, ud) ==
    /\ NumConstructed < n
    /\ LET c == NextFree IN
        /\ BeginCall([op |-> "Button.__init__", self |-> c, arg |-> f,
                      do_callback |-> TRUE, button |-> 0])
        /\ kind' = [kind EXCEPT ![c] = "Button"]
        /\ w' = [w EXCEPT ![c] = "< >"]
        /\ on_press' = [on_press EXCEPT ![c] = f]
        /\ user_data' = [user_data EXCEPT ![c] = ud]
        /\ outcome' = "return"
        /\ retval' = None
        /\ UNCHANGED <<has_mixed, state, group, handlers, presses,
                       pointer_calls, stack>>

IsButton(c) == kind[c] = "Button"

\* "if self.on_press:"
HasOnPress(c) == on_press[c] # None

\* the arguments Button.keypress calls on_press with
KeypressArgs(c) == IF user_data[c] = None THEN <<c>> ELSE <<c, user_data[c]>>

\* the arguments Button.mouse_event calls on_press with
MouseEventArgs(c) == <<c>>

\* the test of the button number lost
IsButton1PressAnyButton(ev, b) == is_mouse_press(ev)

\* "button != 1 or not is_mouse_press(event)", negated
IsButton1Press(ev, b) == b = 1 /\ is_mouse_press(ev)

\* Button.keypress(size, key)
ButtonKeypress(c, key) ==
    /\ IsButton(c)
    /\ BeginCall([op |-> "Button.keypress", self |-> c, arg |-> key,
                  do_callback |-> TRUE, button |-> 0])
    /\ stack' = << Frame("Button.keypress", c, key, TRUE, "start", 1, <<>>) >>
    /\ outcome' = "pending"
    /\ UNCHANGED <<ctlVars, retval>>

\* "if key not in (' ','enter'): return key"
ButtonKeypressOther ==
    /\ InFrame("Button.keypress", "start")
    /\ Top.state \notin {" ", "enter"}
    /\ stack' = Rest
    /\ outcome' = "return"
    /\ retval' = Top.state
    /\ UNCHANGED <<ctlVars, histVars>>

\* on_press is called: application code runs from here on
ButtonKeypressCall ==
    /\ InFrame("Button.keypress", "start")
    /\ Top.state \in {" ", "enter"}
    /\ HasOnPress(Top.self)
    /\ LET c == Top.self IN
        /\ stack' = Rest \o << [Top EXCEPT !.pc = "call"],
                               Frame("on_press", c, None, TRUE, "body", 1,
                                     KeypressArgs(c)) >>
        /\ calls' = Append(calls, [self |-> c, via |-> "keypress",
                                   args |-> KeypressArgs(c)])
    /\ UNCHANGED <<ctlVars, call, pre, pre_handlers,
                   log, emits, rebuilt, reentered, prev,
                   prev2, defaults, outcome, retval>>

\* an activation key and no on_press: the end of the method is reached
ButtonKeypressNoCallback ==
    /\ InFrame("Button.keypress", "start")
    /\ Top.state \in {" ", "enter"}
    /\ ~HasOnPress(Top.self)
    /\ stack' = Rest
    /\ outcome' = "return"
    /\ retval' = None
    /\ UNCHANGED <<ctlVars, histVars>>

\* Button.mouse_event(size, event, button, x, y, focus)
ButtonMouseEvent(c, ev, b) ==
    /\ IsButton(c)
    /\ (b = 1 /\ is_mouse_press(ev)) => presses[c] < MaxPresses
    /\ BeginCall([op |-> "Button.mouse_event", self |-> c, arg |-> ev,
                  do_callback |-> TRUE, button |-> b])
    /\ presses' = [presses EXCEPT ![c] = IF b = 1 /\ is_mouse_press(ev)
                                         THEN @ + 1 ELSE @]
    /\ stack' = << Frame("Button.mouse_event", c, ev, TRUE, "start", b, <<>>) >>
    /\ outcome' = "pending"
    /\ UNCHANGED <<kind, has_mixed, state, w, group, handlers, on_press,
                   user_data, pointer_calls, retval>>

\* "if button != 1 or not is_mouse_press(event): return False"
ButtonMouseEventOther ==
    /\ InFrame("Button.mouse_event", "start")
    /\ ~IsButton1Press(Top.state, Top.i)
    /\ stack' = Rest
    /\ outcome' = "return"
    /\ retval' = "False"
    /\ UNCHANGED <<ctlVars, histVars>>

\* "self.on_press( self )": application code runs from here on
ButtonMouseEventCall ==
    /\ InFrame("Button.mouse_event", "start")
    /\ IsButton1Press(Top.state, Top.i)
    /\ HasOnPress(Top.self)
    /\ LET c == Top.self IN
        /\ stack' = Rest \o << [Top EXCEPT !.pc = "call"],
                               Frame("on_press", c, None, TRUE, "body", 1,
                                     MouseEventArgs(c)) >>
        /\ calls' = Append(calls, [self |-> c, via |-> "mouse_event",
                                   args |-> MouseEventArgs(c)])
        /\ pointer_calls' = [pointer_calls EXCEPT ![c] = @ + 1]
    /\ UNCHANGED <<kind, has_mixed, state, w, group, handlers, on_press,
                   user_data, presses, call, pre, pre_handlers,
                   log, emits, rebuilt,
                   reentered, prev, prev2, defaults, outcome, retval>>

\* a button-1 press and no on_press: "return False"
ButtonMouseEventNoCallback ==
    /\ InFrame("Button.mouse_event", "start")
    /\ IsButton1Press(Top.state, Top.i)
    /\ ~HasOnPress(Top.self)
    /\ stack' = Rest
    /\ outcome' = "return"
    /\ retval' = "False"
    /\ UNCHANGED <<ctlVars, histVars>>

\* on_press returns
OnPressReturn ==
    /\ InFrame("on_press", "body")
    /\ Pop
    /\ UNCHANGED <<ctlVars, histVars>>

\* on_press raises, and the Button lets the exception through
OnPressRaise ==
    /\ InFrame("on_press", "body")
    /\ Raise("HandlerError")
    /\ UNCHANGED histVars

\* Button.keypress: the end of the method is reached, None is returned
ButtonKeypressReturn ==
    /\ InFrame("Button.keypress", "call")
    /\ stack' = Rest
    /\ outcome' = "return"
    /\ retval' = None
    /\ UNCHANGED <<ctlVars, histVars>>

\* Button.mouse_event: "return True"
ButtonMouseEventReturn ==
    /\ InFrame("Button.mouse_event", "call")
    /\ stack' = Rest
    /\ outcome' = "return"
    /\ retval' = "True"
    /\ UNCHANGED <<ctlVars, histVars>>

----------------------------------------------------------------------------
\* Calls the application makes on the controls it has constructed
Use(n) ==
    \/ \E c \in Ctl, h \in HandlerIds : ConnectSignal(n, c, h)
    \/ \E c \in Ctl, v \in Values, dc \in BOOLEAN : SetState(c, v, dc)
    \/ \E c \in Ctl : ToggleState(c)

\* Input events the application forwards to the controls
Input ==
    \/ \E c \in Ctl, key \in Keys : Keypress(c, key)
    \/ \E c \in Ctl, ev \in Events, b \in Buttons : MouseEvent(c, ev, b)

\* Steps of CheckBox.set_state past its first test, and of the handlers it
\* calls
CheckBoxSteps ==
    \/ CBSetStateInvalid
    \/ CBSetStateBegin
    \/ CBEmit
    \/ CBCommit
    \/ HandlerReturn
    \/ HandlerRaise
    \/ ToggleReturn

\* Handlers that call back into the controls
Reenter ==
    \/ \E c \in Ctl, v \in ReenterValues : HandlerSetState(c, v)
    \/ \E c \in Ctl : HandlerToggleState(c)

\* Steps of RadioButton.set_state and RadioButton.__init__
RadioSteps ==
    \/ RBSetStateSame
    \/ RBSetStateSuper
    \/ RBSetStateNotTrue
    \/ RBClearNext
    \/ RBClearDone
    \/ RBInitReturn

\* Check boxes and radio buttons together
Next ==
    \/ /\ \/ \E v \in Values, hm \in BOOLEAN, osc \in {None, "a"} :
                NewCheckBox(NCtl, v, hm, osc)
          \/ \E v \in Values \cup {"first True"}, osc \in {None, "a"} :
                NewRadioButton(NCtl, v, osc)
          \/ Use(MaxHandlers)
          \/ Input
       /\ UNCHANGED <<prev, prev2>>
    \/ CBSetStateSame
    \/ CheckBoxSteps
    \/ CBInitReturn
    \/ RadioSteps

Spec == Init /\ [][Next]_vars

\* One group of radio buttons, with handlers that call back into the group
NextRadio ==
    \/ /\ \/ \E v \in Values \cup {"first True"}, osc \in {None, "a"} :
                NewRadioButton(NRadio, v, osc)
          \/ Use(MaxRadioHandlers)
       /\ UNCHANGED <<prev, prev2>>
    \/ CheckBoxSteps
    \/ RadioSteps
    \/ Reenter

SpecRadio == Init /\ [][NextRadio]_vars

\* Check boxes alone, remembering the toggle before the current call
NextCheckBox ==
    \/ /\ \/ \E v \in Values, hm \in BOOLEAN, osc \in {None, "a"} :
                NewCheckBox(NCheckBox, v, hm, osc)
          \/ Use(MaxCheckBoxHandlers)
          \/ Input
       /\ prev' = Summary
       /\ prev2' = prev
    \/ CBSetStateSame
    \/ CheckBoxSteps
    \/ CBInitReturn

SpecCheckBox == Init /\ [][NextCheckBox]_vars

\* Check boxes whose state is set and whose handlers are connected and
\* disconnected, also by the handlers themselves
NextSignals ==
    \/ /\ \/ \E v \in Values, osc \in {None, "a"} :
                NewCheckBox(NCheckBox, v, FALSE, osc)
          \/ \E c \in Ctl, h \in Registrations : ConnectSignal(MaxHandlers, c, h)
          \/ \E c \in Ctl, h \in Registrations : DisconnectSignal(c, h)
          \/ \E c \in Ctl, v \in Values, dc \in BOOLEAN : SetState(c, v, dc)
       /\ UNCHANGED <<prev, prev2>>
    \/ CBSetStateSame
    \/ CBSetStateInvalid
    \/ CBSetStateBegin
    \/ CBEmit
    \/ CBCommit
    \/ HandlerReturn
    \/ HandlerRaise
    \/ CBInitReturn
    \/ \E c \in Ctl, h \in Registrations : HandlerDisconnect(c, h)

SpecSignals == Init /\ [][NextSignals]_vars

\* Buttons alone
NextButton ==
    \/ /\ \/ \E f \in Callbacks, ud \in UserData : NewButton(NButton, f, ud)
          \/ \E c \in Ctl, key \in Keys : ButtonKeypress(c, key)
          \/ \E c \in Ctl, ev \in PointerEvents, b \in Buttons :
                ButtonMouseEvent(c, ev, b)
       /\ UNCHANGED <<prev, prev2>>
    \/ ButtonKeypressOther
    \/ ButtonKeypressCall
    \/ ButtonKeypressNoCallback
    \/ ButtonMouseEventOther
    \/ ButtonMouseEventCall
    \/ ButtonMouseEventNoCallback
    \/ OnPressReturn
    \/ OnPressRaise
    \/ ButtonKeypressReturn
    \/ ButtonMouseEventReturn

SpecButton == Init /\ [][NextButton]_vars

----------------------------------------------------------------------------
\* Properties

GroupSet == {group[j] : j \in 1..Len(group)}

\* members of the group whose state is True, in the states st
NumTrue(st) == Cardinality({c \in GroupSet : st[c] = "True"})

\* application code is running: at top level, or in the body of a handler
InHandler == ~Idle /\ Top.fn = "handler" /\ Top.pc = "body"

IsConstructor(cl) == cl.op \in {"CheckBox.__init__", "RadioButton.__init__"}

\* the handler invocations of control c during the call
LogOf(c) == SelectSeq(log, LAMBDA e : e.emitter = c)

\* C1: in a radio group, every constructor, set_state or toggle_state call
\* that begins with at most one member True, is not left by an exception of a
\* handler and is not re-entered by a handler, ends with at most one member
\* True; the empty group has none, so after any sequence of such calls zero
\* or one member is True.
C1_AtMostOneTrue ==
    (Idle /\ outcome # "HandlerError" /\ ~reentered /\ NumTrue(pre) <= 1)
        => NumTrue(state) <= 1

\* a third button was set to True and the member that was True is cleared
C1_Witness ==
    /\ Idle /\ outcome = "return" /\ ~reentered
    /\ call.op = "set_state" /\ call.arg = "True"
    /\ Len(group) = 3
    /\ state[call.self] = "True"
    /\ \E c \in GroupSet : pre[c] = "True" /\ state[c] = "False"
    /\ NumTrue(pre) = 1

\* C2: whenever application code runs (at top level after a call that no
\* handler exception ended, or inside a 'change' handler), in a call that
\* began with at most one member True and that no handler re-entered, at
\* most one member of the group is True.
C2_AtMostOneTrueObservable ==
    (/\ \/ InHandler
        \/ Idle /\ outcome # "HandlerError"
     /\ ~reentered
     /\ NumTrue(pre) <= 1)
        => NumTrue(state) <= 1

\* C3 as stated: no call leaves a control without has_mixed in 'mixed'.
C3_NeverMixed ==
    Idle => \A c \in Ctl : (Constructed(c) /\ ~has_mixed[c]) => state[c] # "mixed"

\* C3, amended: the state of a control without has_mixed becomes 'mixed'
\* only in a constructor or set_state call that passes 'mixed' for that very
\* control: toggle_state, keypress and mouse_event never commit it.
C3_MixedOnlyOnRequest ==
    \A c \in Ctl :
        (Constructed(c) /\ ~has_mixed[c] /\ state[c] = "mixed" /\ pre[c] # "mixed")
            => /\ call.self = c
               /\ call.op = "set_state" \/ IsConstructor(call)
               /\ call.arg = "mixed"

\* a check box without has_mixed was toggled from True and went to False
C3_Witness ==
    /\ Idle /\ outcome = "return" /\ IsToggle(call)
    /\ kind[call.self] = "CheckBox" /\ ~has_mixed[call.self]
    /\ pre[call.self] = "True" /\ state[call.self] = "False"

\* C4: once a constructor has returned, the state of the control is not the
\* uninitialized None and its composition is built.
C4_NeverUninitialized ==
    Idle => \A c \in Ctl : Constructed(c) => (state[c] # None /\ w[c] # None)

\* C5: set_state with a value that is no key of states ends in CheckBoxError,
\* calls no handler and changes no state.
C5_InvalidStateRejected ==
    (Idle /\ call.op = "set_state" /\ ~InStates(call.arg))
        => (outcome = "CheckBoxError" /\ log = <<>> /\ state = pre)

\* C6: a set_state call that does not return normally has called no handler
\* and changed nothing.
C6_NoPartialFailure ==
    (Idle /\ call.op = "set_state" /\ outcome # "return")
        => (log = <<>> /\ state = pre /\ rebuilt = {})

\* C7: set_state with the value the control already holds returns without a
\* handler called, a composition rebuilt or any state changed.
C7_SameStateNoEffect ==
    (call.op = "set_state" /\ PyEq(pre[call.self], call.arg))
        => (/\ outcome \in {"pending", "return"}
            /\ log = <<>> /\ rebuilt = {} /\ state = pre)

\* set_state(True) on the selected radio button, which has a handler, while
\* another member of the group is 'mixed'
C7_Witness ==
    /\ Idle /\ outcome = "return"
    /\ call.op = "set_state" /\ call.arg = "True" /\ call.do_callback
    /\ kind[call.self] = "RadioButton" /\ pre[call.self] = "True"
    /\ handlers[call.self] # <<>>
    /\ \E c \in GroupSet : c # call.self /\ state[c] = "mixed"

\* C8: every handler is called with the new state while the control still
\* holds the old one; and a set_state(new) with do_callback that changes the
\* state of a control that has a state calls each handler of the control
\* once, in order, and leaves the control with the new state.
C8_EmitBeforeCommit ==
    /\ \A k \in 1..Len(log) :
          /\ log[k].seen = pre[log[k].emitter]
          /\ log[k].seen # log[k].arg
    /\ InHandler => (state[Top.self] = pre[Top.self] /\ state[Top.self] # Top.state)
    /\ (/\ Idle /\ outcome = "return" /\ call.op = "set_state"
        /\ call.do_callback /\ pre[call.self] # None
        /\ ~PyEq(pre[call.self], call.arg))
          => /\ state[call.self] = call.arg
             /\ Len(LogOf(call.self)) = Len(handlers[call.self])
             /\ \A k \in 1..Len(LogOf(call.self)) :
                   /\ LogOf(call.self)[k].h = handlers[call.self][k]
                   /\ LogOf(call.self)[k].arg = call.arg

\* a check box with two handlers went from False to 'mixed'
C8_Witness ==
    /\ Idle /\ outcome = "return" /\ call.op = "set_state"
    /\ call.arg = "mixed" /\ pre[call.self] = "False"
    /\ state[call.self] = "mixed"
    /\ Len(handlers[call.self]) = 2 /\ Len(log) = 2
    /\ log[2].seen = "False" /\ log[2].arg = "mixed"

\* C9: during and after a constructor call, no handler of the control it
\* constructs has been called.
C9_NoChangeDuringConstruction ==
    IsConstructor(call) => \A k \in 1..Len(log) : log[k].emitter # call.self

\* a radio button constructed True with on_state_change; the constructor
\* cleared the selected member, whose handler was called
C9_Witness ==
    /\ Idle /\ outcome = "return" /\ call.op = "RadioButton.__init__"
    /\ handlers[call.self] # <<>>
    /\ state[call.self] = "True"
    /\ log # <<>>

\* C10 as stated: two consecutive toggles of a check box without has_mixed
\* return it to the state it had, whatever that state was.
C10_ToggleTwice ==
    (/\ Idle /\ outcome = "return" /\ IsToggle(call)
     /\ prev.self = call.self
     /\ ~has_mixed[call.self])
        => state[call.self] = prev.pre

\* C10, amended: they do, from every state but 'mixed'.
C10_ToggleTwiceNotMixed ==
    (/\ Idle /\ outcome = "return" /\ IsToggle(call)
     /\ prev.self = call.self
     /\ ~has_mixed[call.self]
     /\ prev.pre # "mixed")
        => state[call.self] = prev.pre

\* a toggle and then an 'activate' key on a check box that was True
C10_Witness ==
    /\ Idle /\ outcome = "return" /\ call.op = "keypress" /\ IsToggle(call)
    /\ prev.self = call.self
    /\ ~has_mixed[call.self]
    /\ prev.pre = "True" /\ pre[call.self] = "False" /\ state[call.self] = "True"

\* the state that follows st on the cycle False -> True -> 'mixed' -> False
CycleNext(st) ==
    CASE st = "False" -> "True"
      [] st = "True" -> "mixed"
      [] st = "mixed" -> "False"
      [] OTHER -> None

\* C11: three consecutive toggles (toggle_state, an 'activate' key or a
\* button-1 press) of a check box with has_mixed, each returning normally,
\* from False, True or 'mixed', visit the states of the cycle False -> True ->
\* 'mixed' -> False in that order and end in the state they began in.
C11_ToggleThrice ==
    (/\ Idle /\ outcome = "return" /\ IsToggle(call)
     /\ prev.self = call.self /\ prev2.self = call.self
     /\ has_mixed[call.self]
     /\ prev2.pre \in States)
        => /\ prev.pre = CycleNext(prev2.pre)
           /\ pre[call.self] = CycleNext(prev.pre)
           /\ state[call.self] = CycleNext(pre[call.self])
           /\ state[call.self] = prev2.pre

\* three toggles of a check box with has_mixed that was True
C11_Witness ==
    /\ Idle /\ outcome = "return" /\ call.op = "toggle_state"
    /\ prev.self = call.self /\ prev2.self = call.self
    /\ has_mixed[call.self] /\ kind[call.self] = "CheckBox"
    /\ prev2.pre = "True" /\ prev.pre = "mixed" /\ pre[call.self] = "False"
    /\ state[call.self] = "True"

\* C12: every toggle_state call on a constructed check box that returns
\* normally has emitted 'change' exactly once, for that check box and with
\* the state it holds after the call.
C12_ToggleEmitsOnce ==
    (/\ Idle /\ outcome = "return" /\ call.op = "toggle_state"
     /\ kind[call.self] = "CheckBox")
        => /\ Len(emits) = 1
           /\ emits[1].emitter = call.self
           /\ emits[1].arg = state[call.self]

\* C13: a toggle_state call on a radio button that returns normally and that
\* no handler re-entered leaves the button True; on a button that was True it
\* changes no state, emits no 'change' and calls no handler.
C13_RadioToggleSelects ==
    (/\ Idle /\ outcome = "return" /\ ~reentered
     /\ call.op = "toggle_state" /\ kind[call.self] = "RadioButton")
        => /\ state[call.self] = "True"
           /\ pre[call.self] = "True"
                 => (state = pre /\ emits = <<>> /\ log = <<>> /\ rebuilt = {})

\* toggle_state on the selected button of a group of three in which another
\* member is 'mixed' and has a handler
C13_Witness ==
    /\ Idle /\ outcome = "return" /\ ~reentered
    /\ call.op = "toggle_state" /\ kind[call.self] = "RadioButton"
    /\ Len(group) = 3
    /\ pre[call.self] = "True" /\ state[call.self] = "True"
    /\ \E c \in GroupSet : c # call.self /\ state[c] = "mixed" /\ handlers[c] # <<>>

\* the group as it is after n buttons were constructed one after the other
InOrder(n) == [j \in 1..n |-> j]

\* C14: a radio button is no member of the group while its constructor runs;
\* a constructor with the default state returns with the button appended
\* last, and True exactly when the group was empty before; and as long as
\* every call so far was such a constructor, the group lists the buttons in
\* the order of construction, the first is True and every other one False.
C14_FirstTrueDefault ==
    /\ \A c \in Ctl : UnderConstruction(c) => c \notin GroupSet
    /\ (/\ Idle /\ call.op = "RadioButton.__init__" /\ call.arg = "first True")
          => /\ outcome = "return"
             /\ group # <<>> /\ group[Len(group)] = call.self
             /\ state[call.self] = (IF Len(group) = 1 THEN "True" ELSE "False")
    /\ (Idle /\ defaults /\ call.op # "none")
          => /\ group = InOrder(NumConstructed)
             /\ \A c \in GroupSet : state[c] = (IF c = 1 THEN "True" ELSE "False")

\* three buttons constructed by default, the last with on_state_change
C14_Witness ==
    /\ Idle /\ defaults /\ outcome = "return"
    /\ group = <<1, 2, 3>>
    /\ state = <<"True", "False", "False">>
    /\ handlers[3] # <<>>

\* the event of the call is a press of button 1
IsPrimaryPress(cl) == cl.button = 1 /\ cl.arg = "mouse press"

\* C15: for a Button with on_press, after any sequence of pointer events the
\* calls of on_press made by mouse_event are as many as the button-1 press
\* events delivered, and each mouse_event call has called on_press once if
\* its event is a button-1 press and not at all if it is a release, a drag
\* or an event of another button.
C15_OncePerPress ==
    /\ \A c \in Ctl :
          (IsButton(c) /\ HasOnPress(c) /\ ~InFrame("Button.mouse_event", "start"))
              => pointer_calls[c] = presses[c]
    /\ (/\ call.op = "Button.mouse_event" /\ HasOnPress(call.self)
        /\ ~InFrame("Button.mouse_event", "start"))
          => Len(calls) = (IF IsPrimaryPress(call) THEN 1 ELSE 0)

\* two button-1 presses were delivered, then a button-2 press
C15_Witness ==
    /\ Idle /\ outcome = "return" /\ call.op = "Button.mouse_event"
    /\ HasOnPress(call.self)
    /\ call.button = 2 /\ call.arg = "mouse press"
    /\ presses[call.self] = 2 /\ pointer_calls[call.self] = 2
    /\ calls = <<>>

\* C16: every call of on_press, from keypress or from mouse_event, passes the
\* button and, when user_data is not None, the user data after it.
C16_SameArguments ==
    \A k \in 1..Len(calls) :
        LET c == calls[k].self
        IN  calls[k].args = (IF user_data[c] = None THEN <<c>>
                             ELSE <<c, user_data[c]>>)

\* C17: Button.mouse_event returns True for a button-1 press event, with or
\* without on_press, and False for every other event.
C17_PressIsHandled ==
    (Idle /\ outcome = "return" /\ call.op = "Button.mouse_event")
        => retval = (IF IsPrimaryPress(call) THEN "True" ELSE "False")

\* how often h occurs in the list hs
Count(hs, h) == Cardinality({k \in 1..Len(hs) : hs[k] = h})

\* the list hs without h
Without(hs, h) == SelectSeq(hs, LAMBDA x : x # h)

EmitsOf(c) == SelectSeq(emits, LAMBDA e : e.emitter = c)

\* C19: after a set_state call on a radio button that returns normally and
\* that no handler re-entered: if it set a button that was not True to True,
\* with do_callback or without, every other member that was True or 'mixed'
\* is False and has emitted 'change' once, with False, and every other member
\* that was False is False and has emitted nothing; if its value is not True,
\* no other member has changed or emitted.
C19_ClearsOthers ==
    (/\ Idle /\ outcome = "return" /\ ~reentered
     /\ call.op = "set_state" /\ kind[call.self] = "RadioButton")
        => \A c \in GroupSet \ {call.self} :
              /\ (call.arg = "True" /\ pre[call.self] # "True"
                                    /\ pre[c] \in {"True", "mixed"})
                    => /\ state[c] = "False"
                       /\ EmitsOf(c) = << [emitter |-> c, arg |-> "False"] >>
              /\ (call.arg = "True" /\ pre[call.self] # "True" /\ pre[c] = "False")
                    => (state[c] = "False" /\ EmitsOf(c) = <<>>)
              /\ call.arg # "True"
                    => (state[c] = pre[c] /\ EmitsOf(c) = <<>>)

\* set_state(True, do_callback=False) in a group of three with one member
\* True, one 'mixed' and handlers on a cleared member
C19_Witness ==
    /\ Idle /\ outcome = "return" /\ ~reentered
    /\ call.op = "set_state" /\ call.arg = "True" /\ ~call.do_callback
    /\ Len(group) = 3
    /\ pre[call.self] = "False" /\ state[call.self] = "True"
    /\ \E c, d \in GroupSet :
          /\ pre[c] = "True" /\ pre[d] = "mixed"
          /\ state[c] = "False" /\ state[d] = "False"
    /\ Len(emits) = 2 /\ log # <<>>

\* C20: a set_state call on a radio button that begins with at most one
\* member True and returns normally ends with at most one member True, also
\* when handlers called set_state or toggle_state on members of the group
\* during it.
C20_ExclusiveAfterReentry ==
    (/\ Idle /\ outcome = "return"
     /\ call.op = "set_state"
     /\ NumTrue(pre) <= 1)
        => NumTrue(state) <= 1

\* a handler of the member being cleared set a third member to True during
\* set_state(True)
C20_Witness ==
    /\ Idle /\ outcome = "return" /\ reentered
    /\ call.op = "set_state" /\ call.arg = "True"
    /\ Len(group) = 3
    /\ NumTrue(pre) = 1 /\ pre[call.self] = "False"
    /\ NumTrue(state) = 1 /\ state[call.self] = "False"

====
